---- MODULE Spec2Model ----
(***************************************************************************)
(* AI-BLOG-WRITER: the content-generation-and-export pipeline of           *)
(* utils.py (link normalizer, retrying generators, credential resolvers,   *)
(* exporters) and the Streamlit session of app.py.                         *)
(***************************************************************************)
EXTENDS Integers, Sequences, FiniteSets, TLC

\* ------------------------------------------------------------------ bounds
\* Longest generated text, in tokens, that the link normalizer is run on.
MaxLen == 5
\* Number of successive applications of the link normalizer to one text.
MaxPasses == 2
\* Longest raw response, in tokens, of the text-generation API.
MaxRawLen == 4

\* ------------------------------------------------------------------ text
\* A text is a sequence of tokens.  The literal "INTERNAL_LINK:" is one token:
\* it shares no character with the other tokens and has no proper border, so
\* its occurrences in the concatenated string are exactly the PFX tokens.
LB == "["
RB == "]"
PFX == "INTERNAL_LINK:"
SP == " "
NL == "\n"
CH == "x"
Alphabet == {LB, RB, PFX, SP, NL, CH}
\* regex class \s
Whitespace == {SP, NL}

RECURSIVE SeqsUpTo(_)
SeqsUpTo(n) ==
  IF n = 0 THEN {<<>>}
  ELSE LET shorter == SeqsUpTo(n - 1)
       IN  shorter \cup {Append(s, a) : s \in {t \in shorter : Len(t) = n - 1}, a \in Alphabet}
Texts == SeqsUpTo(MaxLen)
RawTexts == SeqsUpTo(MaxRawLen)

\* "a [INTERNAL_LINK: X] b"
ExampleText == <<CH, SP, LB, PFX, SP, CH, RB, SP, CH>>
\* "a [X] b"
ExampleResult == <<CH, SP, LB, CH, RB, SP, CH>>

\* ---- the regular expression  \[INTERNAL_LINK:\s*(.*?)\]  as the engine runs it
\* \s* greedy: the index after the longest whitespace run starting at i
RECURSIVE SkipWhitespace(_, _)
SkipWhitespace(t, i) ==
  IF i <= Len(t) /\ t[i] \in Whitespace THEN SkipWhitespace(t, i + 1) ELSE i

\* (.*?)\] lazy from j: the index of the closing bracket, 0 when the match fails
\* ('.' does not match a newline)
RECURSIVE LazyTopicEnd(_, _)
LazyTopicEnd(t, j) ==
  IF j > Len(t) THEN 0
  ELSE IF t[j] = RB THEN j
  ELSE IF t[j] = NL THEN 0
  ELSE LazyTopicEnd(t, j + 1)

\* A failed match attempt.
NoMatch == [ok |-> FALSE, topic |-> 0, end |-> 0]

\* The match attempt at position pos: the literal "[INTERNAL_LINK:", then \s*
\* greedy with backtracking (longest whitespace run first), then the lazy group.
MatchAt(t, pos) ==
  IF ~(pos + 1 <= Len(t) /\ t[pos] = LB /\ t[pos + 1] = PFX) THEN NoMatch
  ELSE LET longest == SkipWhitespace(t, pos + 2)
           starts  == {s \in (pos + 2)..longest : LazyTopicEnd(t, s) # 0}
       IN  IF starts = {} THEN NoMatch
           ELSE LET s == CHOOSE x \in starts : \A y \in starts : y <= x
                IN  [ok |-> TRUE, topic |-> s, end |-> LazyTopicEnd(t, s)]

\* re.sub scanning left to right from pos: a match is replaced by [\1] and the
\* scan resumes after it; an unmatched character is copied.
RECURSIVE SubFrom(_, _)
SubFrom(t, pos) ==
  IF pos > Len(t) THEN <<>>
  ELSE LET m == MatchAt(t, pos)
       IN  IF m.ok
           THEN <<LB>> \o SubSeq(t, m.topic, m.end - 1) \o <<RB>> \o SubFrom(t, m.end + 1)
           ELSE <<t[pos]>> \o SubFrom(t, pos + 1)

\* the scan of re.sub for the pattern \[INTERNAL_LINK:(.*?)\], without \s*
RECURSIVE KeepSpaceSubFrom(_, _)
KeepSpaceSubFrom(t, pos) ==
  IF pos > Len(t) THEN <<>>
  ELSE LET end == LazyTopicEnd(t, pos + 2)
       IN  IF pos + 1 <= Len(t) /\ t[pos] = LB /\ t[pos + 1] = PFX /\ end # 0
           THEN <<LB>> \o SubSeq(t, pos + 2, end - 1) \o <<RB>> \o KeepSpaceSubFrom(t, end + 1)
           ELSE <<t[pos]>> \o KeepSpaceSubFrom(t, pos + 1)

\* mutant of process_internal_links: the pattern without \s*, so the
\* whitespace after the colon stays in the topic
process_internal_links_keeps_space(text) == KeepSpaceSubFrom(text, 1)

\* re.sub(r'\[INTERNAL_LINK:\s*(.*?)\]', r'[\1]', content)
process_internal_links(text) == SubFrom(text, 1)

\* ------------------------------------------------------------------ generators
APIError == "APIError"
None == "None"
NoText == <<>>

\* What can go wrong at the call boundary of the text-generation API.
BlogFaults == {"network", "auth", "rate_limit", "malformed_response"}
\* ... and of the image-generation API and the download that follows it.
ImageFaults == {"network", "auth", "rate_limit", "malformed_response", "undecodable_image"}
HttpStatuses == {200, 404}

\* One upstream exchange: the API raises `fault`, or answers with `text`
\* (text generation) or with an image URL whose download has `status`.
Upstream(fault, text, status) == [fault |-> fault, text |-> text, status |-> status]
BlogUpstreams(texts) ==
  {Upstream(f, NoText, 0) : f \in BlogFaults} \cup {Upstream(None, t, 0) : t \in texts}
ImageUpstreams ==
  {Upstream(f, NoText, 0) : f \in ImageFaults} \cup {Upstream(None, NoText, st) : st \in HttpStatuses}

Returns(v) == [raised |-> None, value |-> v]
Raises(e) == [raised |-> e, value |-> None]

\* mutant of generate_blog_content: the except clause lets the fault through
generate_blog_content_unwrapped(up) ==
  IF up.fault # None THEN Raises(up.fault) ELSE Returns(process_internal_links(up.text))

\* The body of generate_blog_content, one execution: whatever the API call
\* raises is raised again as APIError; a response is normalized and returned.
generate_blog_content(up) ==
  IF up.fault # None THEN Raises(APIError) ELSE Returns(process_internal_links(up.text))

\* The body of generate_image, one execution: a fault of the API call, of the
\* download or of the decoding, and a download status other than 200, are all
\* raised as APIError.
generate_image(up) ==
  IF up.fault # None THEN Raises(APIError)
  ELSE IF up.status = 200 THEN Returns("image")
  ELSE Raises(APIError)

Generators == {"generate_blog_content", "generate_image"}

\* mutant of retry_policy: backoff=1, the delay never grows
retry_policy_flat(f) == [exceptions |-> APIError, tries |-> 3, delay |-> 2, backoff |-> 1]

\* @retry(APIError, tries=3, delay=2, backoff=2), on both generators
retry_policy(f) ==
  CASE f = "generate_blog_content" -> [exceptions |-> APIError, tries |-> 3, delay |-> 2, backoff |-> 2]
    [] f = "generate_image"        -> [exceptions |-> APIError, tries |-> 3, delay |-> 2, backoff |-> 2]

AttemptEvent(up) == [ev |-> "attempt", up |-> up, secs |-> 0]
SleepEvent(secs) == [ev |-> "sleep", up |-> Upstream(None, NoText, 0), secs |-> secs]

\* ------------------------------------------------------------------ credentials
Services == {"openai", "notion", "wordpress"}
Section(svc) ==
  CASE svc = "openai" -> "api_keys" [] svc = "notion" -> "notion" [] svc = "wordpress" -> "wordpress"
Sections == {Section(svc) : svc \in Services}
Keys(svc) ==
  CASE svc = "openai"    -> {"openai"}
    [] svc = "notion"    -> {"api_key", "database_id"}
    [] svc = "wordpress" -> {"url", "username", "password"}
AllKeys == UNION {Keys(svc) : svc \in Services}
\* the sentinel a secrets template holds for the key
Placeholder(svc, key) ==
  CASE svc = "openai"                          -> "YOUR_OPENAI_API_KEY"
    [] svc = "notion" /\ key = "api_key"       -> "YOUR_NOTION_API_KEY"
    [] svc = "notion" /\ key = "database_id"   -> "YOUR_NOTION_DATABASE_ID"
    [] svc = "wordpress" /\ key = "url"        -> "YOUR_WORDPRESS_URL"
    [] svc = "wordpress" /\ key = "username"   -> "YOUR_WORDPRESS_USERNAME"
    [] svc = "wordpress" /\ key = "password"   -> "YOUR_WORDPRESS_APPLICATION_PASSWORD"
\* the environment variable os.getenv reads for the key
EnvVar(svc, key) ==
  CASE svc = "openai"                          -> "OPENAI_API_KEY"
    [] svc = "notion" /\ key = "api_key"       -> "NOTION_API_KEY"
    [] svc = "notion" /\ key = "database_id"   -> "NOTION_DATABASE_ID"
    [] svc = "wordpress" /\ key = "url"        -> "WORDPRESS_URL"
    [] svc = "wordpress" /\ key = "username"   -> "WORDPRESS_USERNAME"
    [] svc = "wordpress" /\ key = "password"   -> "WORDPRESS_PASSWORD"
EnvVars == UNION {{EnvVar(svc, key) : key \in Keys(svc)} : svc \in Services}

\* st.secrets: per section, whether it is there and the value under each key
\* (None: the key is not there).  os.environ: per variable its value or None.
SecretValue == "secret-value"
EnvValue == "env-value"
SkSecretValue == "sk-secret-value"
SkEnvValue == "sk-env-value"
SecretValues(svc, key) ==
  {None, Placeholder(svc, key), "", SecretValue} \cup (IF svc = "openai" THEN {SkSecretValue} ELSE {})
EnvValues(svc) == {None, "", EnvValue} \cup (IF svc = "openai" THEN {SkEnvValue} ELSE {})
\* str.startswith("sk-") on the values above
StartsWithSk(v) == v \in {SkSecretValue, SkEnvValue}
NoSection == [present |-> FALSE, values |-> [k \in AllKeys |-> None]]
NoSecrets == [sec \in Sections |-> NoSection]
NoEnviron == [v \in EnvVars |-> None]

\* the secrets and environments in which only service svc is configured
SecretsOf(svc) ==
  {[NoSecrets EXCEPT ![Section(svc)] = NoSection]} \cup
  {[NoSecrets EXCEPT ![Section(svc)] =
      [present |-> TRUE, values |-> [k \in AllKeys |-> IF k \in Keys(svc) THEN f[k] ELSE None]]] :
    f \in {g \in [Keys(svc) -> UNION {SecretValues(svc, k) : k \in Keys(svc)}] :
             \A k \in Keys(svc) : g[k] \in SecretValues(svc, k)}}
EnvironsOf(svc) ==
  {[v \in EnvVars |-> IF \E k \in Keys(svc) : v = EnvVar(svc, k) /\ f[k] # None
                      THEN f[CHOOSE k \in Keys(svc) : v = EnvVar(svc, k)] ELSE None] :
    f \in [Keys(svc) -> EnvValues(svc)]}

\* Python truthiness of an optional string
Truthy(v) == v # None /\ v # ""

\* key in st.secrets[section], after section in st.secrets
HasSecret(sec, section, key) == sec[section].present /\ sec[section].values[key] # None
\* st.secrets[section].get(key)
GetSecret(sec, section, key) == IF sec[section].present THEN sec[section].values[key] ELSE None

\* the secrets value when the key is there and is not the placeholder, else
\* os.getenv
get_openai_api_key(sec, env) ==
  IF HasSecret(sec, "api_keys", "openai") /\ sec["api_keys"].values["openai"] # "YOUR_OPENAI_API_KEY"
  THEN sec["api_keys"].values["openai"]
  ELSE env["OPENAI_API_KEY"]

\* api_key and database_id start as None; with a 'notion' section they are
\* its .get() values, a placeholder reset to None; what is then falsy is read
\* from the environment.
get_notion_credentials(sec, env) ==
  LET api_key0 == GetSecret(sec, "notion", "api_key")
      database_id0 == GetSecret(sec, "notion", "database_id")
      api_key1 == IF api_key0 = "YOUR_NOTION_API_KEY" THEN None ELSE api_key0
      database_id1 == IF database_id0 = "YOUR_NOTION_DATABASE_ID" THEN None ELSE database_id0
  IN  [api_key |-> IF ~Truthy(api_key1) THEN env["NOTION_API_KEY"] ELSE api_key1,
       database_id |-> IF ~Truthy(database_id1) THEN env["NOTION_DATABASE_ID"] ELSE database_id1]

\* mutant of get_wordpress_credentials: the password's placeholder is not rejected
get_wordpress_credentials_keeps_placeholder(sec, env) ==
  LET url0 == GetSecret(sec, "wordpress", "url")
      user0 == GetSecret(sec, "wordpress", "username")
      pass0 == GetSecret(sec, "wordpress", "password")
      url1 == IF url0 = "YOUR_WORDPRESS_URL" THEN None ELSE url0
      user1 == IF user0 = "YOUR_WORDPRESS_USERNAME" THEN None ELSE user0
  IN  [url |-> IF ~Truthy(url1) THEN env["WORDPRESS_URL"] ELSE url1,
       username |-> IF ~Truthy(user1) THEN env["WORDPRESS_USERNAME"] ELSE user1,
       password |-> IF ~Truthy(pass0) THEN env["WORDPRESS_PASSWORD"] ELSE pass0]

get_wordpress_credentials(sec, env) ==
  LET wp_url0 == GetSecret(sec, "wordpress", "url")
      wp_username0 == GetSecret(sec, "wordpress", "username")
      wp_password0 == GetSecret(sec, "wordpress", "password")
      wp_url1 == IF wp_url0 = "YOUR_WORDPRESS_URL" THEN None ELSE wp_url0
      wp_username1 == IF wp_username0 = "YOUR_WORDPRESS_USERNAME" THEN None ELSE wp_username0
      wp_password1 ==
        IF wp_password0 = "YOUR_WORDPRESS_APPLICATION_PASSWORD" THEN None ELSE wp_password0
  IN  [url |-> IF ~Truthy(wp_url1) THEN env["WORDPRESS_URL"] ELSE wp_url1,
       username |-> IF ~Truthy(wp_username1) THEN env["WORDPRESS_USERNAME"] ELSE wp_username1,
       password |-> IF ~Truthy(wp_password1) THEN env["WORDPRESS_PASSWORD"] ELSE wp_password1]

\* the resolver of a service, its result as a function of the service's keys
Resolve(svc, sec, env) ==
  CASE svc = "openai"    -> [openai |-> get_openai_api_key(sec, env)]
    [] svc = "notion"    -> get_notion_credentials(sec, env)
    [] svc = "wordpress" -> get_wordpress_credentials(sec, env)

\* ------------------------------------------------------------------ app.py helpers
\* the key check behind the sidebar warning and the generate button
validate_openai_key(sec, env) ==
  IF HasSecret(sec, "api_keys", "openai")
  THEN /\ sec["api_keys"].values["openai"] # "YOUR_OPENAI_API_KEY"
       /\ StartsWithSk(sec["api_keys"].values["openai"])
  ELSE env["OPENAI_API_KEY"] # None /\ StartsWithSk(env["OPENAI_API_KEY"])

\* len(text.split()): the maximal runs of characters that are not whitespace
count_words(text) ==
  Cardinality({i \in 1..Len(text) :
                 text[i] \notin Whitespace /\ (i = 1 \/ text[i - 1] \in Whitespace)})

\* markdown.markdown(text) on a text of one paragraph
markdown_to_html(text) == IF count_words(text) = 0 THEN NoText ELSE <<"<p>">> \o text \o <<"</p>">>
\* f'<div class="html-preview">{html_content}</div>'
Styled(html) == <<"<div class=\"html-preview\">">> \o html \o <<"</div>">>

\* the raw responses the application is run on: plain text, and a marker
SampleTexts == {<<CH, SP, CH>>, <<LB, PFX, SP, CH, RB>>}
SampleUpstreams == {Upstream("network", NoText, 0)} \cup {Upstream(None, t, 0) : t \in SampleTexts}
SampleImageUpstreams == {Upstream("network", NoText, 0), Upstream(None, NoText, 200)}

\* the configurations the application is run in (the module-level
\* OpenAI(api_key=get_openai_api_key()) needs a key to start with): all three
\* sections of the secrets store filled in; the OpenAI key left as the
\* placeholder and set in the environment; and nothing but the OpenAI key, in
\* the environment
FilledSection(svc, v) ==
  [present |-> TRUE, values |-> [k \in AllKeys |-> IF k \in Keys(svc) THEN v ELSE None]]
KeyInEnviron == [NoEnviron EXCEPT !["OPENAI_API_KEY"] = SkEnvValue]
AppConfigs ==
  {[secrets |-> [api_keys |-> FilledSection("openai", SkSecretValue),
                 notion |-> FilledSection("notion", SecretValue),
                 wordpress |-> FilledSection("wordpress", SecretValue)],
    environ |-> NoEnviron],
   [secrets |-> [NoSecrets EXCEPT !["api_keys"] = FilledSection("openai", "YOUR_OPENAI_API_KEY")],
    environ |-> KeyInEnviron],
   [secrets |-> NoSecrets, environ |-> KeyInEnviron]}

Formats == {"Markdown", "HTML"}
ExportOptions == {"Download", "Notion", "WordPress"}

\* ------------------------------------------------------------------ state
VARIABLES
  content,     \* link normalizer: the text handed to process_internal_links
  processed,   \* link normalizer: the latest result
  previous,    \* link normalizer: the argument of the latest application
  passes,      \* link normalizer: applications made so far
  fn,          \* retry: the decorated generator being called, None when none is
  tries_left,  \* retry: _tries, the attempts that remain
  delay,       \* retry: _delay, the next wait
  outcome,     \* retry: "pending", "returned" or "raised"
  raised,      \* retry: the exception the call raised
  result,      \* retry: the value the call returned
  events,      \* the upstream exchanges and the time.sleep calls of the call, in order
  secrets,     \* st.secrets
  environ,     \* os.environ
  resolving,   \* credentials: the service whose resolver is called
  resolved,    \* credentials: what the resolver returned, <<>> before it has
  exporter,    \* export: save_to_notion or save_to_wordpress while called, else None
  exp_image,   \* export: the image argument, None or an image
  exp_pc,      \* export: where the call stands
  attempt,     \* export: the upload loop's variable
  thumbnail,   \* export: post.thumbnail
  remote_calls,\* export: the calls made to the remote service, in order
  exp_outcome, \* export: "pending", "returned" or "raised"
  exp_raised,  \* export: the exception the call raised
  session,     \* st.session_state, a function of the keys that are in it
  title,       \* widget: the blog title
  keywords,    \* widget: the keywords, parsed
  generate_featured_image, \* widget: the checkbox
  output_format,           \* widget: the radio
  export_options,          \* widget: the multiselect
  pc,          \* app: what the running script is in the middle of, "idle" between runs
  flow,        \* app: the steps the generate handler has invoked in this run, in order
  shown        \* app: the messages the last run has put on the page

linkVars == <<content, processed, previous, passes>>
retryVars == <<fn, tries_left, delay, outcome, raised, result, events>>
configVars == <<secrets, environ>>
credVars == <<resolving, resolved>>
exportVars == <<exporter, exp_image, exp_pc, attempt, thumbnail, remote_calls, exp_outcome, exp_raised>>
vars == <<content, processed, previous, passes,
          fn, tries_left, delay, outcome, raised, result, events,
          secrets, environ, resolving, resolved,
          exporter, exp_image, exp_pc, attempt, thumbnail, remote_calls, exp_outcome, exp_raised,
          session, title, keywords, generate_featured_image, output_format, export_options,
          pc, flow, shown>>
widgetVars == <<title, keywords, generate_featured_image, output_format, export_options>>
appVars == <<session, title, keywords, generate_featured_image, output_format, export_options,
             pc, flow, shown>>

\* ------------------------------------------------------------------ link normalizer
LinksIdle ==
  /\ content = NoText
  /\ processed = NoText
  /\ previous = NoText
  /\ passes = 0

RetryIdle ==
  /\ fn = None
  /\ tries_left = 0
  /\ delay = 0
  /\ outcome = None
  /\ raised = None
  /\ result = None
  /\ events = <<>>

NoConfig == secrets = NoSecrets /\ environ = NoEnviron
CredsIdle == resolving = None /\ resolved = <<>>
\* the widgets' defaults and an empty session
AppIdle ==
  /\ session = <<>>
  /\ title = ""
  /\ keywords = <<>>
  /\ generate_featured_image = TRUE
  /\ output_format = "Markdown"
  /\ export_options = {}
  /\ pc = "idle"
  /\ flow = <<>>
  /\ shown = {}
ExportIdle ==
  /\ exporter = None
  /\ exp_image = None
  /\ exp_pc = None
  /\ attempt = 0
  /\ thumbnail = None
  /\ remote_calls = <<>>
  /\ exp_outcome = None
  /\ exp_raised = None

InitLinks ==
  /\ content \in Texts \cup {ExampleText}
  /\ processed = content
  /\ previous = content
  /\ passes = 0
  /\ RetryIdle
  /\ NoConfig
  /\ CredsIdle
  /\ ExportIdle
  /\ AppIdle

\* one call process_internal_links(processed)
Normalize ==
  /\ passes < MaxPasses
  /\ previous' = processed
  /\ processed' = process_internal_links(processed)
  /\ passes' = passes + 1
  /\ UNCHANGED content
  /\ UNCHANGED <<retryVars, configVars, credVars, exportVars, appVars>>

NextLinks == Normalize
SpecLinks == InitLinks /\ [][NextLinks]_vars

\* ------------------------------------------------------------------ retry
\* The decorated function is called: _tries, _delay = tries, delay.
StartCall(f) ==
  /\ fn' = f
  /\ tries_left' = retry_policy(f).tries
  /\ delay' = retry_policy(f).delay
  /\ outcome' = "pending"
  /\ raised' = None
  /\ result' = None
  /\ events' = <<>>

\* One iteration of the retry loop around the body's execution r on the
\* upstream exchange up: return what the body returns; let through what is not
\* of the retried class; otherwise count the try down, raise when none is left,
\* else sleep _delay and multiply it by backoff.
RetryIteration(r, up) ==
  /\ fn' = fn
  /\ IF r.raised = None
     THEN /\ outcome' = "returned"
          /\ result' = r.value
          /\ events' = Append(events, AttemptEvent(up))
          /\ UNCHANGED <<tries_left, delay, raised>>
     ELSE IF r.raised # retry_policy(fn).exceptions
     THEN /\ outcome' = "raised"
          /\ raised' = r.raised
          /\ events' = Append(events, AttemptEvent(up))
          /\ UNCHANGED <<tries_left, delay, result>>
     ELSE /\ tries_left' = tries_left - 1
          /\ IF tries_left' = 0
             THEN /\ outcome' = "raised"
                  /\ raised' = r.raised
                  /\ events' = Append(events, AttemptEvent(up))
                  /\ UNCHANGED delay
             ELSE /\ events' = events \o <<AttemptEvent(up), SleepEvent(delay)>>
                  /\ delay' = delay * retry_policy(fn).backoff
                  /\ UNCHANGED <<outcome, raised>>
          /\ UNCHANGED result

\* generate_blog_content runs once more inside the retry loop
BlogAttempt(upstreams) ==
  /\ fn = "generate_blog_content"
  /\ outcome = "pending"
  /\ \E up \in upstreams : RetryIteration(generate_blog_content(up), up)

\* generate_image runs once more inside the retry loop
ImageAttempt(upstreams) ==
  /\ fn = "generate_image"
  /\ outcome = "pending"
  /\ \E up \in upstreams : RetryIteration(generate_image(up), up)

\* A caller calls one of the two generators.
CallGenerator ==
  /\ fn = None
  /\ \E f \in Generators : StartCall(f)

InitRetry == LinksIdle /\ RetryIdle /\ NoConfig /\ CredsIdle /\ ExportIdle /\ AppIdle

NextRetry ==
  \/ CallGenerator /\ UNCHANGED <<linkVars, configVars, credVars, exportVars, appVars>>
  \/ BlogAttempt(BlogUpstreams(RawTexts)) /\ UNCHANGED <<linkVars, configVars, credVars, exportVars, appVars>>
  \/ ImageAttempt(ImageUpstreams) /\ UNCHANGED <<linkVars, configVars, credVars, exportVars, appVars>>
SpecRetry == InitRetry /\ [][NextRetry]_vars

\* ------------------------------------------------------------------ credential resolvers
\* A process in which one service's credentials are (or are not) configured
\* is about to call that service's resolver.
InitCreds ==
  /\ LinksIdle /\ RetryIdle /\ ExportIdle /\ AppIdle
  /\ resolving \in Services
  /\ secrets \in SecretsOf(resolving)
  /\ environ \in EnvironsOf(resolving)
  /\ resolved = <<>>

\* get_openai_api_key() / get_notion_credentials() / get_wordpress_credentials()
CallResolver ==
  /\ resolved = <<>>
  /\ resolved' = Resolve(resolving, secrets, environ)
  /\ UNCHANGED <<linkVars, retryVars, configVars, resolving, exportVars, appVars>>

NextCreds == CallResolver
SpecCreds == InitCreds /\ [][NextCreds]_vars

\* ------------------------------------------------------------------ exporters
Exporters == {"save_to_notion", "save_to_wordpress"}
ServiceOf(f) == IF f = "save_to_notion" THEN "notion" ELSE "wordpress"
\* the attachment ids a media upload may answer with
AttachmentIds == {"attachment-1", "attachment-2"}
RemoteCall(call, ok, id) == [call |-> call, ok |-> ok, id |-> id]
\* for attempt in range(3)
UploadRange == 3
\* if attempt == 2
LastAttempt == 2

\* save_to_notion / save_to_wordpress is called with an image or with None
StartExport(f, image) ==
  /\ exporter' = f
  /\ exp_image' = image
  /\ exp_pc' = "resolve"
  /\ attempt' = 0
  /\ thumbnail' = None
  /\ remote_calls' = <<>>
  /\ exp_outcome' = "pending"
  /\ exp_raised' = None

ExportRaises ==
  /\ exp_outcome' = "raised"
  /\ exp_raised' = APIError
  /\ exp_pc' = "done"

\* mutant of ResolveDestination: the check of the resolved credentials is gone
ResolveDestinationUnchecked ==
  /\ exporter \in Exporters
  /\ exp_pc = "resolve"
  /\ exp_pc' = IF exporter = "save_to_notion" THEN "create"
               ELSE IF exp_image # None THEN "upload" ELSE "newpost"
  /\ UNCHANGED <<exp_outcome, exp_raised>>
  /\ UNCHANGED <<exporter, exp_image, attempt, thumbnail, remote_calls>>

\* The exporter resolves its credentials; a falsy one raises APIError, which
\* the enclosing except raises again as APIError.  Otherwise the client is
\* built and the call goes on: to the page creation (Notion), to the upload of
\* the image when one was given, else to the post creation (WordPress).
ResolveDestination ==
  /\ exporter \in Exporters
  /\ exp_pc = "resolve"
  /\ LET creds == Resolve(ServiceOf(exporter), secrets, environ)
     IN  IF \E k \in Keys(ServiceOf(exporter)) : ~Truthy(creds[k])
         THEN ExportRaises
         ELSE /\ exp_pc' = IF exporter = "save_to_notion" THEN "create"
                           ELSE IF exp_image # None THEN "upload" ELSE "newpost"
              /\ UNCHANGED <<exp_outcome, exp_raised>>
  /\ UNCHANGED <<exporter, exp_image, attempt, thumbnail, remote_calls>>

\* notion.pages.create(...): its URL is returned, or its exception is raised
\* again as APIError
NotionCreate ==
  /\ exporter = "save_to_notion"
  /\ exp_pc = "create"
  /\ \E ok \in BOOLEAN :
       /\ remote_calls' = Append(remote_calls, RemoteCall("pages.create", ok, None))
       /\ IF ok
          THEN exp_outcome' = "returned" /\ exp_pc' = "done" /\ UNCHANGED exp_raised
          ELSE ExportRaises
  /\ UNCHANGED <<exporter, exp_image, attempt, thumbnail>>

\* mutant of UploadAttempt: the last failure is not raised (attempt == 3 is
\* never true inside range(3)), so the loop ends and the post is created
UploadAttemptNeverRaises ==
  /\ exporter = "save_to_wordpress"
  /\ exp_pc = "upload"
  /\ \E ok \in BOOLEAN, id \in AttachmentIds :
       /\ remote_calls' = Append(remote_calls, RemoteCall("UploadFile", ok, IF ok THEN id ELSE None))
       /\ IF ok
          THEN /\ thumbnail' = id
               /\ exp_pc' = "newpost"
               /\ UNCHANGED attempt
          ELSE /\ IF attempt + 1 < UploadRange
                  THEN attempt' = attempt + 1 /\ exp_pc' = "upload"
                  ELSE UNCHANGED attempt /\ exp_pc' = "newpost"
               /\ UNCHANGED thumbnail
       /\ UNCHANGED <<exp_outcome, exp_raised>>
  /\ UNCHANGED <<exporter, exp_image>>

\* One pass of the upload loop: wp.call(media.UploadFile(data)).  On success
\* the answered id becomes post.thumbnail and the loop is left; on an exception
\* the last attempt raises APIError (raised again by the enclosing except) and
\* an earlier one goes round the loop.
UploadAttempt ==
  /\ exporter = "save_to_wordpress"
  /\ exp_pc = "upload"
  /\ \E ok \in BOOLEAN, id \in AttachmentIds :
       /\ remote_calls' = Append(remote_calls, RemoteCall("UploadFile", ok, IF ok THEN id ELSE None))
       /\ IF ok
          THEN /\ thumbnail' = id
               /\ exp_pc' = "newpost"
               /\ UNCHANGED <<attempt, exp_outcome, exp_raised>>
          ELSE /\ IF attempt = LastAttempt
                  THEN ExportRaises /\ UNCHANGED attempt
                  ELSE IF attempt + 1 < UploadRange
                  THEN attempt' = attempt + 1 /\ exp_pc' = "upload" /\ UNCHANGED <<exp_outcome, exp_raised>>
                  ELSE UNCHANGED <<attempt, exp_outcome, exp_raised>> /\ exp_pc' = "newpost"
               /\ UNCHANGED thumbnail
  /\ UNCHANGED <<exporter, exp_image>>

\* wp.call(NewPost(post)): the post's URL is returned, or the exception is
\* raised again as APIError
NewPost ==
  /\ exporter = "save_to_wordpress"
  /\ exp_pc = "newpost"
  /\ \E ok \in BOOLEAN :
       /\ remote_calls' = Append(remote_calls, RemoteCall("NewPost", ok, thumbnail))
       /\ IF ok
          THEN exp_outcome' = "returned" /\ exp_pc' = "done" /\ UNCHANGED exp_raised
          ELSE ExportRaises
  /\ UNCHANGED <<exporter, exp_image, attempt, thumbnail>>

\* An exporter has just been called, with or without an image, in a process
\* where its destination's credentials are (or are not) configured.
InitExport ==
  /\ LinksIdle /\ RetryIdle /\ CredsIdle /\ AppIdle
  /\ exporter \in Exporters
  /\ exp_image \in {None, "image"}
  /\ secrets \in SecretsOf(ServiceOf(exporter))
  /\ environ \in EnvironsOf(ServiceOf(exporter))
  /\ exp_pc = "resolve"
  /\ attempt = 0
  /\ thumbnail = None
  /\ remote_calls = <<>>
  /\ exp_outcome = "pending"
  /\ exp_raised = None

NextExport ==
  \/ ResolveDestination /\ UNCHANGED <<linkVars, retryVars, configVars, credVars, appVars>>
  \/ NotionCreate /\ UNCHANGED <<linkVars, retryVars, configVars, credVars, appVars>>
  \/ UploadAttempt /\ UNCHANGED <<linkVars, retryVars, configVars, credVars, appVars>>
  \/ NewPost /\ UNCHANGED <<linkVars, retryVars, configVars, credVars, appVars>>
SpecExport == InitExport /\ [][NextExport]_vars

\* ------------------------------------------------------------------ app.py
\* st.session_state.key = value
Put(state, key, value) == [k \in DOMAIN state \cup {key} |-> IF k = key THEN value ELSE state[k]]
Has(key) == key \in DOMAIN session

\* st.session_state.html_content raises AttributeError when the key is not there
HtmlMissing == output_format = "HTML" /\ ~Has("html_content")
\* the download branch of the export section stops the script there
DownloadCrashes == Has("blog_content") /\ "Download" \in export_options /\ HtmlMissing
\* what the end of a script run puts on the page after `messages`
Rendered(messages, state, format, options) ==
  messages \cup
    (IF "blog_content" \in DOMAIN state /\ format = "HTML" /\ "html_content" \notin DOMAIN state
     THEN {"AttributeError"} ELSE {})

\* what the page offers once a run has ended
Available(option) ==
  /\ Has("blog_content")
  /\ option \in export_options
  /\ ~DownloadCrashes

\* The user edits one widget of the sidebar; the script runs with no button
\* pressed.
ChangeWidgets ==
  /\ pc = "idle"
  /\ \/ /\ title' \in ({"", "Best Coffee Brewing Methods"} \ {title})
        /\ UNCHANGED <<keywords, generate_featured_image, output_format, export_options>>
     \/ /\ keywords' \in ({<<>>, <<"pour over", "french press">>} \ {keywords})
        /\ UNCHANGED <<title, generate_featured_image, output_format, export_options>>
     \/ /\ generate_featured_image' = ~generate_featured_image
        /\ UNCHANGED <<title, keywords, output_format, export_options>>
     \/ /\ output_format' \in (Formats \ {output_format})
        /\ UNCHANGED <<title, keywords, generate_featured_image, export_options>>
     \/ /\ \E option \in ExportOptions :
             export_options' = IF option \in export_options
                               THEN export_options \ {option} ELSE export_options \cup {option}
        /\ UNCHANGED <<title, keywords, generate_featured_image, output_format>>
  /\ shown' = Rendered({}, session, output_format', export_options')
  /\ UNCHANGED <<session, pc, flow>>
  /\ UNCHANGED <<retryVars, exportVars>>

\* The generate button is pressed (it is disabled without a valid key).
\* Without a title or a keyword the run only reports it; otherwise
\* generate_blog_content is called.
ClickGenerate ==
  /\ pc = "idle"
  /\ validate_openai_key(secrets, environ)
  /\ IF title = ""
     THEN /\ shown' = Rendered({"Please enter a blog title"}, session, output_format, export_options)
          /\ UNCHANGED <<pc, flow, retryVars>>
     ELSE IF keywords = <<>>
     THEN /\ shown' = Rendered({"Please enter at least one keyword"}, session, output_format, export_options)
          /\ UNCHANGED <<pc, flow, retryVars>>
     ELSE /\ StartCall("generate_blog_content")
          /\ pc' = "content"
          /\ flow' = <<"content">>
          /\ shown' = {}
  /\ UNCHANGED <<session, widgetVars, exportVars>>

\* the frames of a finished generator call are gone
ForgetCall ==
  /\ fn' = None
  /\ tries_left' = 0
  /\ delay' = 0
  /\ outcome' = None
  /\ raised' = None
  /\ result' = None
  /\ events' = <<>>

\* The rest of the handler after the image step: the conversion when the
\* format is HTML, else the success message and the end of the run.
ConvertOrFinish(state, messages) ==
  /\ ForgetCall
  /\ IF output_format = "HTML"
     THEN /\ pc' = "convert"
          /\ flow' = Append(flow, "convert")
          /\ shown' = messages
     ELSE /\ pc' = "idle"
          /\ UNCHANGED flow
          /\ shown' = Rendered(messages \cup {"Blog post generated successfully!"},
                               state, output_format, export_options)

\* mutant of ContentFinished: a failed generation is reported and the handler
\* goes on to the image all the same
ContentFinishedIgnoresFailure ==
  /\ pc = "content"
  /\ outcome \in {"returned", "raised"}
  /\ session' = IF outcome = "raised" THEN session
                ELSE Put(Put(Put(session, "blog_content", result),
                             "word_count", count_words(result)), "featured_image", None)
  /\ IF generate_featured_image
     THEN /\ StartCall("generate_image")
          /\ pc' = "image"
          /\ flow' = flow \o (IF outcome = "raised" THEN <<"image">> ELSE <<"content_returned", "image">>)
          /\ shown' = IF outcome = "raised" THEN {"Error"} ELSE shown
     ELSE /\ ForgetCall
          /\ pc' = "idle"
          /\ flow' = flow \o (IF outcome = "raised" THEN <<>> ELSE <<"content_returned">>)
          /\ shown' = Rendered({"Error"}, session', output_format, export_options)
  /\ UNCHANGED <<widgetVars, exportVars>>

\* generate_blog_content has ended.  Its APIError is reported by the outer
\* except and the run ends.  Its result is counted and stored with
\* featured_image = None; then generate_image is called if the box is ticked,
\* else the handler goes on to the conversion.
ContentFinished ==
  /\ pc = "content"
  /\ outcome \in {"returned", "raised"}
  /\ IF outcome = "raised"
     THEN /\ ForgetCall
          /\ pc' = "idle"
          /\ shown' = Rendered({"Error"}, session, output_format, export_options)
          /\ UNCHANGED <<session, flow>>
     ELSE /\ session' = Put(Put(Put(session, "blog_content", result),
                                "word_count", count_words(result)), "featured_image", None)
          /\ IF generate_featured_image
             THEN /\ StartCall("generate_image")
                  /\ pc' = "image"
                  /\ flow' = flow \o <<"content_returned", "image">>
                  /\ UNCHANGED shown
             ELSE /\ ForgetCall
                  /\ IF output_format = "HTML"
                     THEN /\ pc' = "convert"
                          /\ flow' = flow \o <<"content_returned", "convert">>
                          /\ UNCHANGED shown
                     ELSE /\ pc' = "idle"
                          /\ flow' = Append(flow, "content_returned")
                          /\ shown' = Rendered({"Blog post generated successfully!"},
                                               session', output_format, export_options)
  /\ UNCHANGED <<widgetVars, exportVars>>

\* mutant of ImageFinished: a failed image throws away what was generated
ImageFinishedDropsContent ==
  /\ pc = "image"
  /\ outcome \in {"returned", "raised"}
  /\ IF outcome = "returned"
     THEN /\ session' = Put(session, "featured_image", result)
          /\ ConvertOrFinish(session', {})
     ELSE /\ session' = <<>>
          /\ ForgetCall
          /\ pc' = "idle"
          /\ UNCHANGED flow
          /\ shown' = {"Error generating image"}
  /\ UNCHANGED <<widgetVars, exportVars>>

\* generate_image has ended.  Its image is stored as featured_image; its
\* APIError is reported by the inner except.  Either way the handler goes on.
ImageFinished ==
  /\ pc = "image"
  /\ outcome \in {"returned", "raised"}
  /\ IF outcome = "returned"
     THEN /\ session' = Put(session, "featured_image", result)
          /\ ConvertOrFinish(session', {})
     ELSE /\ UNCHANGED session
          /\ ConvertOrFinish(session, {"Error generating image"})
  /\ UNCHANGED <<widgetVars, exportVars>>

\* markdown_to_html(blog_content) in the generate handler: the styled HTML is
\* stored and the success message shown, or the converter's APIError is
\* reported by the outer except.
ConvertToHtml ==
  /\ pc = "convert"
  /\ \E ok \in BOOLEAN :
       IF ok
       THEN /\ session' = Put(session, "html_content", Styled(markdown_to_html(session["blog_content"])))
            /\ shown' = Rendered(shown \cup {"Blog post generated successfully!"},
                                 session', output_format, export_options)
       ELSE /\ UNCHANGED session
            /\ shown' = Rendered(shown \cup {"Error"}, session, output_format, export_options)
  /\ pc' = "idle"
  /\ UNCHANGED <<flow, widgetVars, retryVars, exportVars>>

\* the image an exporter is handed
SessionImage == IF Has("featured_image") THEN session["featured_image"] ELSE None

\* The Notion button is pressed: save_to_notion(title, blog_content, image).
ClickNotion ==
  /\ pc = "idle"
  /\ Available("Notion")
  /\ StartExport("save_to_notion", SessionImage)
  /\ pc' = "export"
  /\ shown' = {}
  /\ UNCHANGED <<session, flow, widgetVars, retryVars>>

\* The WordPress button is pressed.  The content is the stored HTML (an
\* AttributeError when there is none) or the converted markdown (an APIError,
\* reported, when the converter fails); then save_to_wordpress is called.
ClickWordPress ==
  /\ pc = "idle"
  /\ Available("WordPress")
  /\ \E converts \in BOOLEAN :
       IF HtmlMissing
       THEN /\ shown' = {"AttributeError"}
            /\ UNCHANGED <<pc, exportVars>>
       ELSE IF output_format = "Markdown" /\ ~converts
       THEN /\ shown' = Rendered({"Error saving to WordPress"}, session, output_format, export_options)
            /\ UNCHANGED <<pc, exportVars>>
       ELSE /\ StartExport("save_to_wordpress", SessionImage)
            /\ pc' = "export"
            /\ shown' = {}
  /\ UNCHANGED <<session, flow, widgetVars, retryVars>>

\* The exporter has ended: its URL or its APIError is reported.
ExportFinished ==
  /\ pc = "export"
  /\ exp_outcome \in {"returned", "raised"}
  /\ shown' = Rendered({CASE exporter = "save_to_notion" /\ exp_outcome = "returned" ->
                                "Saved to Notion successfully!"
                           [] exporter = "save_to_notion" /\ exp_outcome = "raised" ->
                                "Error saving to Notion"
                           [] exporter = "save_to_wordpress" /\ exp_outcome = "returned" ->
                                "Saved to WordPress as draft!"
                           [] exporter = "save_to_wordpress" /\ exp_outcome = "raised" ->
                                "Error saving to WordPress"},
                        session, output_format, export_options)
  /\ pc' = "idle"
  /\ exporter' = None
  /\ exp_image' = None
  /\ exp_pc' = None
  /\ attempt' = 0
  /\ thumbnail' = None
  /\ remote_calls' = <<>>
  /\ exp_outcome' = None
  /\ exp_raised' = None
  /\ UNCHANGED <<session, flow, widgetVars, retryVars>>

\* The application starts: default widgets, an empty session, and a
\* configuration in which the module-level OpenAI client could be built.
Init ==
  /\ LinksIdle /\ RetryIdle /\ CredsIdle /\ ExportIdle /\ AppIdle
  /\ \E config \in AppConfigs : secrets = config.secrets /\ environ = config.environ
  /\ get_openai_api_key(secrets, environ) # None

others == <<linkVars, configVars, credVars>>
Next ==
  \/ ChangeWidgets /\ UNCHANGED others
  \/ ClickGenerate /\ UNCHANGED others
  \/ BlogAttempt(SampleUpstreams) /\ pc = "content" /\ UNCHANGED <<others, exportVars, appVars>>
  \/ ContentFinished /\ UNCHANGED others
  \/ ImageAttempt(SampleImageUpstreams) /\ pc = "image" /\ UNCHANGED <<others, exportVars, appVars>>
  \/ ImageFinished /\ UNCHANGED others
  \/ ConvertToHtml /\ UNCHANGED others
  \/ ClickNotion /\ UNCHANGED others
  \/ ClickWordPress /\ UNCHANGED others
  \/ ResolveDestination /\ pc = "export" /\ UNCHANGED <<others, retryVars, appVars>>
  \/ NotionCreate /\ pc = "export" /\ UNCHANGED <<others, retryVars, appVars>>
  \/ UploadAttempt /\ pc = "export" /\ UNCHANGED <<others, retryVars, appVars>>
  \/ NewPost /\ pc = "export" /\ UNCHANGED <<others, retryVars, appVars>>
  \/ ExportFinished /\ UNCHANGED others
Spec == Init /\ [][Next]_vars

\* ------------------------------------------------------------------ claims: link normalizer
\* C2 (as claimed): process_internal_links is idempotent: a second application
\* returns its argument, the result of the first, unchanged.
C2_Idempotent == passes = 2 => processed = previous

\* The marker of the normalizer, stated on the text rather than as a scan: at i
\* stand "[" and "INTERNAL_LINK:", a "]" follows, and up to the first such "]"
\* every newline lies in the whitespace that directly follows the colon.
ClosingAfter(t, i) == {j \in (i + 2)..Len(t) : t[j] = RB}
FirstClosing(t, i) == CHOOSE j \in ClosingAfter(t, i) : \A k \in ClosingAfter(t, i) : j <= k
TopicStart(t, i) ==
  LET j == FirstClosing(t, i)
  IN  CHOOSE s \in (i + 2)..j :
        /\ \A k \in (i + 2)..(s - 1) : t[k] \in Whitespace
        /\ t[s] \notin Whitespace
MarkerAt(t, i) ==
  /\ i + 1 <= Len(t) /\ t[i] = LB /\ t[i + 1] = PFX
  /\ ClosingAfter(t, i) # {}
  /\ \A k \in TopicStart(t, i)..(FirstClosing(t, i) - 1) : t[k] # NL
Markers(t) == {i \in 1..Len(t) : MarkerAt(t, i)}

\* The marker as C6 words it: the topic is the shortest run of characters, of
\* whatever kind, up to the next closing bracket.
ClaimedMarkerAt(t, i) ==
  /\ i + 1 <= Len(t) /\ t[i] = LB /\ t[i + 1] = PFX
  /\ ClosingAfter(t, i) # {}
ClaimedMarkers(t) == {i \in 1..Len(t) : ClaimedMarkerAt(t, i)}

\* Each marker, leftmost first, replaced by "[" topic "]"; the rest kept as
\* is.  The markers are those of the claim's wording when `claimed`.
RECURSIVE Rewritten(_, _)
Rewritten(claimed, t) ==
  LET found == IF claimed THEN ClaimedMarkers(t) ELSE Markers(t)
  IN  IF found = {} THEN t
      ELSE LET i == CHOOSE x \in found : \A y \in found : x <= y
               j == FirstClosing(t, i)
           IN  SubSeq(t, 1, i - 1) \o <<LB>> \o SubSeq(t, TopicStart(t, i), j - 1) \o <<RB>>
                 \o Rewritten(claimed, SubSeq(t, j + 1, Len(t)))

Attempts == SelectSeq(events, LAMBDA e : e.ev = "attempt")
Sleeps == SelectSeq(events, LAMBDA e : e.ev = "sleep")
\* the upstream side of an attempt failed: the API raised, or (image) the
\* download did not answer 200
UpstreamFailed(e) == e.up.fault # None \/ (fn = "generate_image" /\ e.up.status # 200)
ValueOf(e) ==
  IF fn = "generate_blog_content" THEN process_internal_links(e.up.text) ELSE "image"

\* C1: one call of generate_blog_content or generate_image makes at most 3
\* attempts; only the last attempt can be a success and a success ends the
\* call with its value (so two failures and a success return the third
\* attempt's value after exactly 3 attempts); the call raises exactly when 3
\* attempts have failed, and then it raises APIError.
C1_ThreeAttempts ==
  fn \in Generators =>
    LET n == Len(Attempts)
        allFailed == \A i \in 1..n : UpstreamFailed(Attempts[i])
    IN  /\ n <= 3
        /\ \A i \in 1..(n - 1) : UpstreamFailed(Attempts[i])
        /\ (outcome = "pending") = (n < 3 /\ allFailed)
        /\ (outcome = "returned") = (n >= 1 /\ ~UpstreamFailed(Attempts[n]))
        /\ (outcome = "raised") = (n = 3 /\ allFailed)
        /\ outcome = "returned" => result = ValueOf(Attempts[n])
        /\ outcome = "raised" => raised = APIError

\* C1 witness: two failed attempts, then the third succeeds and is returned.
C1_Witness ==
  /\ fn = "generate_blog_content" /\ outcome = "returned"
  /\ Len(Attempts) = 3
  /\ UpstreamFailed(Attempts[1]) /\ UpstreamFailed(Attempts[2])
  /\ result = process_internal_links(Attempts[3].up.text)
  /\ result # NoText

\* C3 (as claimed): what generate_blog_content returns never contains the
\* literal "INTERNAL_LINK:".
C3_NoPrefixLeft ==
  fn = "generate_blog_content" /\ outcome = "returned" =>
    \A i \in 1..Len(result) : result[i] # PFX

\* C9: the events of a call alternate attempt, wait, attempt, ...: nothing
\* precedes the first attempt, the wait before the 2nd attempt is 2 and the one
\* before the 3rd is 4, a finished call ends with an attempt (no wait after the
\* last one), and a failed attempt that is not the third is followed by its
\* wait whatever the fault was.
C9_Backoff ==
  fn \in Generators =>
    /\ Len(events) <= 5
    /\ \A i \in 1..Len(events) :
         /\ (i % 2 = 1) = (events[i].ev = "attempt")
         /\ i = 2 => events[i].secs = 2
         /\ i = 4 => events[i].secs = 4
         /\ events[i].ev = "attempt" /\ UpstreamFailed(events[i]) /\ i < 5
              => i < Len(events) /\ events[i + 1].ev = "sleep"
    /\ outcome \in {"returned", "raised"} => events[Len(events)].ev = "attempt"
    /\ outcome = "raised" => Len(events) = 5

\* C9 witness: three attempts failed on three different faults, with the waits
\* 2 and 4 between them and none after the last.
C9_Witness ==
  /\ fn = "generate_image" /\ outcome = "raised"
  /\ [i \in 1..Len(Sleeps) |-> Sleeps[i].secs] = <<2, 4>>
  /\ Len(Attempts) = 3
  /\ Attempts[1].up.fault = "network"
  /\ Attempts[2].up.fault = "rate_limit"
  /\ Attempts[3].up.fault = None /\ Attempts[3].up.status = 404
  /\ events[5].ev = "attempt"

\* ------------------------------------------------------------------ claims: credentials
\* the secrets-store value of the key, None when the section or the key is absent
Stored(k) == GetSecret(secrets, Section(resolving), k)
FromEnv(k) == environ[EnvVar(resolving, k)]
WithStored(k, v) ==
  [secrets EXCEPT ![Section(resolving)] =
     [present |-> TRUE, values |-> [secrets[Section(resolving)].values EXCEPT ![k] = v]]]
\* a placeholder in the store resolves as the key being absent from it does
PlaceholderAsAbsent(k) ==
  Resolve(resolving, WithStored(k, Placeholder(resolving, k)), environ)[k]
    = Resolve(resolving, WithStored(k, None), environ)[k]

\* C5 (as claimed): the placeholder resolves as absent; a stored value that
\* is not the placeholder wins over a set environment variable; the variable
\* is what is returned when the store holds nothing or the placeholder.
C5_NonPlaceholderWins ==
  resolved # <<>> =>
    \A k \in Keys(resolving) :
      /\ PlaceholderAsAbsent(k)
      /\ Stored(k) \in {None, Placeholder(resolving, k)} => resolved[k] = FromEnv(k)
      /\ Stored(k) \notin {None, Placeholder(resolving, k)} /\ FromEnv(k) = EnvValue
           => resolved[k] = Stored(k)

\* C5 (amended): the placeholder resolves as absent; the environment variable
\* is returned exactly when the store yields no usable value, a usable value
\* being one that is present, not the placeholder and, for the Notion and
\* WordPress fields, not empty (get_openai_api_key returns an empty stored key
\* as it is); a usable stored value always wins over the environment.
Usable(k) ==
  /\ Stored(k) \notin {None, Placeholder(resolving, k)}
  /\ resolving = "openai" \/ Stored(k) # ""
C5_UsableSecretWins ==
  resolved # <<>> =>
    \A k \in Keys(resolving) :
      /\ PlaceholderAsAbsent(k)
      /\ resolved[k] = IF Usable(k) THEN Stored(k) ELSE FromEnv(k)

\* C5 witness: the WordPress password is the placeholder in the store and is
\* read from the environment, while the stored URL wins over its variable.
C5_Witness ==
  /\ resolving = "wordpress" /\ resolved # <<>>
  /\ Stored("password") = "YOUR_WORDPRESS_APPLICATION_PASSWORD"
  /\ resolved["password"] = EnvValue
  /\ Stored("url") = SecretValue /\ FromEnv("url") = EnvValue
  /\ resolved["url"] = SecretValue

\* ------------------------------------------------------------------ claims: exporters
Uploads == SelectSeq(remote_calls, LAMBDA c : c.call = "UploadFile")
NewPosts == SelectSeq(remote_calls, LAMBDA c : c.call = "NewPost")

MissingCredential ==
  \E k \in Keys(ServiceOf(exporter)) :
    ~Truthy(Resolve(ServiceOf(exporter), secrets, environ)[k])
FailureStep ==
  \/ pc = "image" /\ (outcome = "raised" \/ outcome' = "raised")
  \/ pc = "export" /\ (exp_outcome = "raised" \/ exp_outcome' = "raised")

\* C8: image generation and the exporters run with blog_content stored, and a
\* step in which one of them fails leaves blog_content and word_count in the
\* session as they were and takes away neither export nor the download.
C8_FailureKeepsContent ==
  [][FailureStep =>
       /\ Has("blog_content") /\ Has("word_count")
       /\ "blog_content" \in DOMAIN session' /\ "word_count" \in DOMAIN session'
       /\ session'["blog_content"] = session["blog_content"]
       /\ session'["word_count"] = session["word_count"]
       /\ \A option \in ExportOptions : Available(option) => Available(option)']_vars

\* C8 witness: the Notion export has just failed; the content of the marker
\* sample is still in the session, and WordPress and the download are offered.
C8_Witness ==
  /\ pc = "idle"
  /\ "Error saving to Notion" \in shown
  /\ Has("blog_content") /\ session["blog_content"] = <<LB, CH, RB>>
  /\ session["word_count"] = 1
  /\ Available("WordPress") /\ Available("Download")

AllowedFlows ==
  {<<>>, <<"content">>, <<"content", "content_returned">>,
   <<"content", "content_returned", "image">>,
   <<"content", "content_returned", "convert">>,
   <<"content", "content_returned", "image", "convert">>}
FlowHas(step) == \E i \in 1..Len(flow) : flow[i] = step
InProgress ==
  (IF fn = "generate_blog_content" THEN {"content"} ELSE {}) \cup
  (IF fn = "generate_image" THEN {"image"} ELSE {}) \cup
  (IF pc = "convert" THEN {"convert"} ELSE {}) \cup
  (IF exporter \in Exporters THEN {"export"} ELSE {})

\* C10: the generate handler invokes content generation, then image
\* generation, then the conversion, in this order, the last two optional and
\* only after the content of this run was returned and stored; at most one of
\* them or an exporter is in progress at a time; an exporter runs only with
\* blog_content in the session.
C10_Order ==
  /\ flow \in AllowedFlows
  /\ Cardinality(InProgress) <= 1
  /\ InProgress = IF pc = "idle" THEN {} ELSE {pc}
  /\ pc = "content" => flow = <<"content">>
  /\ pc \in {"image", "convert"} =>
       /\ flow[Len(flow)] = pc
       /\ FlowHas("content_returned")
       /\ Has("blog_content")
  /\ exporter \in Exporters => Has("blog_content")

\* C10 witness: after a run that generated content, image and HTML in turn,
\* save_to_wordpress is uploading the image.
C10_Witness ==
  /\ flow = <<"content", "content_returned", "image", "convert">>
  /\ pc = "export" /\ exporter = "save_to_wordpress" /\ exp_pc = "upload"
  /\ Has("html_content") /\ session["featured_image"] = "image"


\* ------------------------------------------------------------------ claims: session and key checks
\* C11 (as claimed): whenever a script run has ended with blog_content in the
\* session and HTML as the selected output format, html_content is in the
\* session too and is the styled conversion of the current blog_content.
C11_HtmlCurrent ==
  pc = "idle" /\ Has("blog_content") /\ output_format = "HTML" =>
    /\ Has("html_content")
    /\ session["html_content"] = Styled(markdown_to_html(session["blog_content"]))

\* C12 (as claimed): once get_openai_api_key() has answered, validate_openai_key()
\* is true exactly when the answer is a key that starts with "sk-".
C12_ChecksAgree ==
  resolving = "openai" /\ resolved # <<>> =>
    (validate_openai_key(secrets, environ) <=> StartsWithSk(resolved["openai"]))

====
